---- MODULE Spec2Model ----
(***************************************************************************)
(* Shape analysis along the spinal cord centerline (scripts/msct_shape.py):*)
(* properties2d, assign_AP_and_RL_diameter and                             *)
(* compute_properties_along_centerline; the array binarization of          *)
(* spinalcordtoolbox/imgproc.py; Transform.apply and main of                *)
(* scripts/sct_apply_transfo.py.                                           *)
(*                                                                         *)
(* Floats are exact fractions [num, den]; NaN is 0/0.  Lengths and areas   *)
(* delivered by skimage are drawn from small integer ranges.  A region's   *)
(* orientation is delivered in radians and is kept as a multiple of        *)
(* pi / PiDen.  List indices are 1-based here and 0-based in the source;   *)
(* depth indices are 0-based as in the source.                             *)
(***************************************************************************)
EXTENDS Integers, Sequences, FiniteSets, TLC

VARIABLES
    pc,            \* "unit" / "called": direct calls of the two helpers;
                   \* "start" / "loop" / "done" / "raised": the pipeline call;
                   \* "img" / "transfo": calls into imgproc.py / sct_apply_transfo.py
    im_seg,        \* the input volume: dim and, per depth index, whether a voxel > 0 exists
    min_z_index,
    max_z_index,
    properties,    \* property name -> array over depth indices
    iz,            \* next value of the loop variable
    visited,       \* depth indices whose loop body was entered, in order
    absent,        \* depth indices at which properties2d returned None
    log,           \* warning-level log events
    error,         \* exception that left the call, "none" otherwise
    regions,       \* regionprops(label(patch)) of the last properties2d call
    resolution,    \* resolution argument of the last properties2d call
    ix,            \* np.argsort(areas) of the last properties2d call
    p2d,           \* value returned by the last properties2d call
    p2d_before,    \* value returned for the same patch before the resolution was rescaled
    scale,         \* factor of the last rescaling of the resolution, 0 if none
    sc_properties, \* the loop's variable sc_properties (lines 198 and 200)
    arr_ctl_der,   \* what get_centerline delivered: the x and y derivatives
    current_patch, \* the raw patch of the last loop body
    current_patch_scaled,  \* the patch after the angle correction
    angle_xy,      \* <<angle_x, angle_y>> of the last loop body
    tangent_vect,  \* the tangent of the last loop body, lines 176-178, before line 180
    oracle,        \* any-order execution: the slice contents and library outcomes per depth index
    img,           \* imgproc.py: the call and its outcome
    xf             \* sct_apply_transfo.py: the command line, the Transform object and its effects

loopVars == <<arr_ctl_der, current_patch, current_patch_scaled, angle_xy, tangent_vect>>
others == <<oracle, img, xf>>

vars == <<pc, im_seg, min_z_index, max_z_index, properties, iz, visited, absent, log,
          error, regions, resolution, ix, p2d, p2d_before, scale, sc_properties,
          arr_ctl_der, current_patch, current_patch_scaled, angle_xy, tangent_vect, oracle,
          img, xf>>

---------------------------------------------------------------------------
(* Bounds of the model *)

MaxNz == 5
MaxRes == 2
MaxRegions == 2
MaxArea == 2
MaxAxis == 2
MaxK == 2
PiDen == 12
Nx == 2
Ny == 3
MaxVal == 2
ArrLen == 2
MaxWarps == 2
MaxNt == 2

---------------------------------------------------------------------------
(* Python values *)

None == [type |-> "NoneType"]
TypeError == [raised |-> "TypeError"]
ZeroDivisionError == [raised |-> "ZeroDivisionError"]

Float(n) == [num |-> n, den |-> 1]
NaN == [num |-> 0, den |-> 0]
isnan(v) == v.den = 0
Mul(v, n) == [num |-> v.num * n, den |-> v.den]
\* a < b on floats; any comparison with NaN is false
Lt(a, b) == ~isnan(a) /\ ~isnan(b) /\ a.num * b.den < b.num * a.den
Le(a, b) == ~isnan(a) /\ ~isnan(b) /\ a.num * b.den <= b.num * a.den

\* a / b on Python floats (skimage returns the axis lengths as 4 * math.sqrt(...)):
\* a zero divisor raises ZeroDivisionError
TrueDiv(a, b) == IF b = 0 THEN ZeroDivisionError ELSE [num |-> a, den |-> b]

\* range(start, stop)
range(start, stop) == start .. (stop - 1)

Min(S) == CHOOSE m \in S : \A e \in S : m <= e
Max(S) == CHOOSE m \in S : \A e \in S : e <= m

---------------------------------------------------------------------------
(* skimage: measure.regionprops(measure.label(patch)) as a list of regions *)

Region(a, M, m, q, d, e, s) ==
    [area |-> a,
     major_axis_length |-> M,
     minor_axis_length |-> m,
     orientation |-> q,            \* radians, in units of pi / PiDen
     equivalent_diameter |-> d,
     eccentricity |-> e,
     solidity |-> s,
     bbox |-> "bbox",
     centroid |-> "centroid",
     euler_number |-> "euler_number",
     inertia_tensor |-> "inertia_tensor",
     inertia_tensor_eigvals |-> "inertia_tensor_eigvals",
     moments |-> "moments",
     moments_central |-> "moments_central",
     perimeter |-> "perimeter"]

Half == [num |-> 1, den |-> 2]

\* the library orders the inertia eigenvalues, so minor <= major; the orientation
\* lies in [-pi/2, pi/2]
RegionSet ==
    UNION {{Region(a, M, m, q, d, e, s) :
               a \in 1..MaxArea, m \in 0..M, q \in (-(PiDen \div 2))..(PiDen \div 2),
               d \in 1..MaxAxis, e \in {Float(0), Half}, s \in {Half, Float(1)}} :
           M \in 0..MaxAxis}

Blob(a, q) == Region(a, MaxAxis, 1, q, 1, Half, Float(1))
Pixel == Region(1, 0, 0, 0, 1, Float(0), Float(1))
BlobSet == {Blob(a, q) : a \in 1..MaxArea, q \in {0, 1}}

\* patches handed to properties2d directly
PatchSet ==
    {<<>>} \cup {<<r>> : r \in RegionSet}
           \cup UNION {[1..n -> BlobSet] : n \in 2..MaxRegions}

\* angle-corrected patches met by the depth loop
SlicePatchSet ==
    {<<>>, <<Pixel>>, <<Blob(2, 1), Blob(1, 0)>>}

ResolutionSet == {<<rx, ry>> : rx \in 1..MaxRes, ry \in 1..MaxRes}

\* np.argsort(areas): a permutation that sorts areas ascending; the default
\* kind (quicksort) is not stable, so equal areas may come in any order
ArgsortSet(areas) ==
    LET n == Len(areas) IN
    {p \in [1..n -> 1..n] :
        /\ \A i, j \in 1..n : i # j => p[i] # p[j]
        /\ \A i, j \in 1..n : i < j => areas[p[i]] <= areas[p[j]]}

---------------------------------------------------------------------------
(* properties2d, lines 37-92.  ix is np.argsort(areas), line 41. *)

\* line 43: regions[ix[-1]]
LargestRegion_first(image_regions, image_ix) == image_regions[image_ix[1]]

LargestRegion(image_regions, image_ix) == image_regions[image_ix[Len(image_ix)]]

\* lines 44-47: the quotient, 0.0 when the division raises ZeroDivisionError
RatioMinorMajor_uncaught(sc_region) ==
    TrueDiv(sc_region.minor_axis_length, sc_region.major_axis_length)

RatioMinorMajor_inverted(sc_region) ==
    LET q == TrueDiv(sc_region.major_axis_length, sc_region.minor_axis_length)
    IN  IF q = ZeroDivisionError THEN Float(0) ELSE q

RatioMinorMajor(sc_region) ==
    LET q == TrueDiv(sc_region.minor_axis_length, sc_region.major_axis_length)
    IN  IF q = ZeroDivisionError THEN Float(0) ELSE q

\* lines 49, 53-54: area *= resolution[0] * resolution[1]
ScaledArea(area, image_resolution) ==
    IF image_resolution # None
    THEN Mul(Float(area), image_resolution[1] * image_resolution[2])
    ELSE Float(area)

\* lines 50-52, 56-58: length *= resolution[0]
ScaledLength_py(length, image_resolution) ==
    IF image_resolution # None
    THEN Mul(Float(length), image_resolution[2])
    ELSE Float(length)

ScaledLength(length, image_resolution) ==
    IF image_resolution # None
    THEN Mul(Float(length), image_resolution[1])
    ELSE Float(length)

Degrees == 180

\* lines 71-88: the dictionary built for the selected region.  size_grid
\* (lines 60-62) is a local that is never read; the resolutions of ResolutionSet
\* are positive, so 8.0 / resolution[0] does not raise.
RegionRecord(sc_region, image_resolution) ==
    [area |-> ScaledArea(sc_region.area, image_resolution),
     bbox |-> sc_region.bbox,
     centroid |-> sc_region.centroid,
     eccentricity |-> sc_region.eccentricity,
     equivalent_diameter |-> ScaledLength(sc_region.equivalent_diameter, image_resolution),
     euler_number |-> sc_region.euler_number,
     inertia_tensor |-> sc_region.inertia_tensor,
     inertia_tensor_eigvals |-> sc_region.inertia_tensor_eigvals,
     minor_axis_length |-> ScaledLength(sc_region.minor_axis_length, image_resolution),
     major_axis_length |-> ScaledLength(sc_region.major_axis_length, image_resolution),
     moments |-> sc_region.moments,
     moments_central |-> sc_region.moments_central,
     \* sc_region.orientation * 180.0 / math.pi
     orientation |-> [num |-> sc_region.orientation * Degrees, den |-> PiDen],
     perimeter |-> sc_region.perimeter,
     ratio_minor_major |-> RatioMinorMajor(sc_region),
     solidity |-> sc_region.solidity]

properties2d_zeroed(image_regions, image_resolution, image_ix) ==
    IF Len(image_regions) # 0
    THEN RegionRecord(LargestRegion(image_regions, image_ix), image_resolution)
    ELSE RegionRecord(Region(0, 0, 0, 0, 0, Float(0), Float(0)), image_resolution)

properties2d(image_regions, image_resolution, image_ix) ==
    IF Len(image_regions) # 0
    THEN RegionRecord(LargestRegion(image_regions, image_ix), image_resolution)
    ELSE None

---------------------------------------------------------------------------
(* assign_AP_and_RL_diameter, lines 95-108 *)

Threshold == 45

WithDiameters_overwriting(p, rl, ap) ==
    [k \in DOMAIN p \cup {"RL_diameter", "AP_diameter"} |->
        IF k \in {"RL_diameter", "major_axis_length"} THEN rl
        ELSE IF k = "AP_diameter" THEN ap ELSE p[k]]

WithDiameters(p, rl, ap) ==
    [k \in DOMAIN p \cup {"RL_diameter", "AP_diameter"} |->
        IF k = "RL_diameter" THEN rl ELSE IF k = "AP_diameter" THEN ap ELSE p[k]]

assign_AP_and_RL_diameter_inclusive(p) ==
    IF p = None
    THEN TypeError
    ELSE IF Le(Float(-Threshold), p.orientation) /\ Le(p.orientation, Float(Threshold))
         THEN WithDiameters(p, p.major_axis_length, p.minor_axis_length)
         ELSE WithDiameters(p, p.minor_axis_length, p.major_axis_length)

assign_AP_and_RL_diameter(p) ==
    IF p = None
    THEN TypeError      \* None['orientation']
    ELSE IF Lt(Float(-Threshold), p.orientation) /\ Lt(p.orientation, Float(Threshold))
         THEN WithDiameters(p, p.major_axis_length, p.minor_axis_length)
         ELSE WithDiameters(p, p.minor_axis_length, p.major_axis_length)

---------------------------------------------------------------------------
(* compute_properties_along_centerline, lines 111-289 *)

property_list ==
    <<"area", "equivalent_diameter", "AP_diameter", "RL_diameter",
      "ratio_minor_major", "eccentricity", "solidity", "orientation">>

PropertyNames == {property_list[i] : i \in 1..Len(property_list)}

\* line 150: one array of nz NaN per property
InitProperties_short(nz) ==
    [key \in PropertyNames |-> [i \in 0..(nz - 2) |-> NaN]]

InitProperties(nz) ==
    [key \in PropertyNames |-> [i \in 0..(nz - 1) |-> NaN]]

\* line 163: the depth indices of the loop
DepthRange_whole(min_z, max_z) == range(min_z, max_z + 1)

DepthRange(min_z, max_z) == range(min_z, max_z - 1)

\* lines 204-205
WriteProperties_partial(props, sc, z) ==
    [key \in DOMAIN props |->
        IF key = "orientation" THEN props[key] ELSE [props[key] EXCEPT ![z] = sc[key]]]

\* lines 204-205, writing a neighbouring depth index as well
WriteProperties_spilling(props, sc, z) ==
    [key \in DOMAIN props |->
        [i \in DOMAIN props[key] |-> IF i \in {z, z + 1} THEN sc[key] ELSE props[key][i]]]

WriteProperties(props, sc, z) ==
    [key \in DOMAIN props |-> [props[key] EXCEPT ![z] = sc[key]]]

\* a 2D patch: its shape and regionprops(label(patch))
Patch(shape, patch_regions) == [shape |-> shape, regions |-> patch_regions]

\* line 165: im_seg.data[:, :, iz]; a slice with a voxel > 0 has a region
RawPatchSet(has_foreground) ==
    IF has_foreground THEN SlicePatchSet \ {<<>>} ELSE {<<>>}

\* get_centerline (spinalcordtoolbox.centerline.core), line 157: it fails, or
\* delivers the x and y derivatives, one entry per depth position of
\* [min_z, max_z)
CenterlineFailure == [raised |-> "CenterlineError"]

CenterlineSet(min_z, max_z) ==
    {CenterlineFailure} \cup
    {[x |-> [i \in 1..(max_z - min_z) |-> dx], y |-> [i \in 1..(max_z - min_z) |-> dy]] :
        dx \in {0, 1}, dy \in {0, 1}} \cup
    {[x |-> [i \in 1..(max_z - min_z) |-> i - 1], y |-> [i \in 1..(max_z - min_z) |-> 0]]}

\* line 157 has no handler: a failure of get_centerline leaves the function
AfterCenterline_swallowed(fit) == "loop"

AfterCenterline(fit) == IF fit = CenterlineFailure THEN "raised" ELSE "loop"

\* lines 176-177: the index iz - min_z_index into the derivatives (1-based here)
Offset_absolute(z, min_z) == z + 1

Offset(z, min_z) == z - min_z + 1

\* lines 176-178; k is the index into the derivatives
TangentVect_offset(der, k, px, py, pz) == <<der.x[k] + px, der.y[k] + py, pz>>

TangentVect(der, k, px, py, pz) == <<der.x[k] * px, der.y[k] * py, pz>>

\* line 180: v / np.linalg.norm(v), kept as the vector v and the square of its
\* norm; a zero vector gives 0 / 0 = nan in every component, without raising
Normalize(v) == [v |-> v, norm2 |-> v[1] * v[1] + v[2] * v[2] + v[3] * v[3]]

\* lines 182-187: with v1 = [0, 1], det([v0, v1]) = v0[0] and dot(v0, v1) = v0[1].
\* An angle is kept as the direction (y, x) it was taken from; atan2(0, x) is
\* 0 for x >= 0, and the angle of nan components is nan.
ZeroAngle == [y |-> 0, x |-> 1]
NaNAngle == [y |-> 0, x |-> 0]

atan2(y, x, norm2) ==
    IF norm2 = 0 THEN NaNAngle
    ELSE IF y = 0 /\ x >= 0 THEN ZeroAngle
    ELSE [y |-> y, x |-> x]

\* line 189: np.cos(angle).  The depth spacing is not negative, so the cosine
\* is not negative either: it is kept as its square, x * x / (x * x + y * y).
cos(angle) ==
    IF angle = NaNAngle THEN NaN
    ELSE IF angle = ZeroAngle THEN Float(1)
    ELSE [num |-> angle.x * angle.x, den |-> angle.x * angle.x + angle.y * angle.y]

\* lines 189-195: warp(current_patch, AffineTransform(scale).inverse,
\* output_shape, order=1).  With both scale factors 1.0 the transformation is
\* the identity and bilinear interpolation returns the patch; an empty patch
\* stays empty under any finite scale; otherwise the labelling of the outcome
\* is not determined here (any patch), and with a nan scale nothing is.
warp(image, tform_scale, output_shape) ==
    IF tform_scale = <<Float(1), Float(1)>>
    THEN {Patch(output_shape, image.regions)}
    ELSE IF image.regions = <<>> /\ ~isnan(tform_scale[1]) /\ ~isnan(tform_scale[2])
         THEN {Patch(output_shape, <<>>)}
         ELSE {Patch(output_shape, r) : r \in SlicePatchSet}

\* str.format: each replacement field of the template takes the argument
Text(t) == [text |-> t]
Field == [field |-> "{}"]
format(template, arg) ==
    [i \in 1..Len(template) |-> IF template[i] = Field THEN [value |-> arg] ELSE template[i]]

\* line 207: sct.log.warning('No properties for slice: '.format([iz]))
Warning(z) ==
    [level |-> "warning", message |-> format(<<Text("No properties for slice: ")>>, <<z>>)]

Volumes ==
    UNION {{[nx |-> Nx, ny |-> Ny, nz |-> n, px |-> rx, py |-> ry, pz |-> rz, data |-> d] :
               rx \in 1..MaxRes, ry \in 1..MaxRes, rz \in 0..1,
               d \in [0..(n - 1) -> BOOLEAN]} :
           n \in 1..MaxNz}

NoVolume ==
    [nx |-> Nx, ny |-> Ny, nz |-> 1, px |-> 1, py |-> 1, pz |-> 1,
     data |-> [z \in {0} |-> FALSE]]

NoPatch == Patch(<<0, 0>>, <<>>)

\* the state before any of the shape functions has run
ShapeInit ==
    /\ min_z_index = 0
    /\ max_z_index = 0
    /\ properties = <<>>
    /\ iz = 0
    /\ visited = <<>>
    /\ absent = {}
    /\ log = <<>>
    /\ error = "none"
    /\ regions = <<>>
    /\ resolution = None
    /\ ix = <<>>
    /\ p2d = None
    /\ p2d_before = None
    /\ scale = 0
    /\ sc_properties = None
    /\ arr_ctl_der = None
    /\ current_patch = NoPatch
    /\ current_patch_scaled = NoPatch
    /\ angle_xy = <<ZeroAngle, ZeroAngle>>
    /\ tangent_vect = <<>>

Init ==
    /\ pc \in {"unit", "start"}
    /\ im_seg \in (IF pc = "start" THEN Volumes ELSE {NoVolume})
    /\ ShapeInit
    /\ oracle = <<>>
    /\ img = None
    /\ xf = None

\* the effect of properties2d(image, resolution) on the call record
Properties2dOf(patch, res) ==
    \E perm \in ArgsortSet([i \in 1..Len(patch) |-> patch[i].area]) :
        /\ regions' = patch
        /\ resolution' = res
        /\ ix' = perm
        /\ p2d' = properties2d(patch, res, perm)
        /\ sc_properties' = properties2d(patch, res, perm)

\* a direct call properties2d(image, resolution), resolution given or left out
CallProperties2d ==
    /\ pc = "unit"
    /\ \E patch \in PatchSet :
         \/ \E res \in ResolutionSet : Properties2dOf(patch, res)
         \/ Properties2dOf(patch, None)
    /\ pc' = "called"
    /\ UNCHANGED <<loopVars, others>>
    /\ UNCHANGED <<im_seg, min_z_index, max_z_index, properties, iz, visited,
                   absent, log, error, p2d_before, scale>>

\* the same patch again, with both components of the resolution multiplied by k
CallProperties2dRescaled ==
    /\ pc = "called"
    /\ resolution # None
    /\ scale = 0
    /\ error = "none"
    /\ \E k \in 1..MaxK :
         /\ scale' = k
         /\ resolution' = <<k * resolution[1], k * resolution[2]>>
         /\ p2d' = properties2d(regions, <<k * resolution[1], k * resolution[2]>>, ix)
         /\ sc_properties' = properties2d(regions, <<k * resolution[1], k * resolution[2]>>, ix)
    /\ p2d_before' = p2d
    /\ UNCHANGED <<loopVars, others>>
    /\ UNCHANGED <<pc, im_seg, min_z_index, max_z_index, properties, iz, visited,
                   absent, log, error, regions, ix>>

\* a direct call assign_AP_and_RL_diameter(sc_properties)
CallAssign ==
    /\ pc = "called"
    /\ error = "none"
    /\ LET r == assign_AP_and_RL_diameter(sc_properties) IN
         IF r = TypeError
         THEN error' = "TypeError" /\ UNCHANGED sc_properties
         ELSE sc_properties' = r /\ UNCHANGED error
    /\ UNCHANGED <<loopVars, others>>
    /\ UNCHANGED <<pc, im_seg, min_z_index, max_z_index, properties, iz, visited,
                   absent, log, regions, resolution, ix, p2d, p2d_before, scale>>

\* lines 138-159: dimensions, depth range of the voxels > 0, output arrays,
\* centerline
Start ==
    /\ pc = "start"
    /\ LET Z == {z \in DOMAIN im_seg.data : im_seg.data[z]} IN
         IF Z = {}
         THEN \* min() of an empty sequence
              /\ pc' = "raised"
              /\ error' = "ValueError"
              /\ UNCHANGED <<min_z_index, max_z_index, properties, iz, arr_ctl_der>>
         ELSE /\ min_z_index' = Min(Z)
              /\ max_z_index' = Max(Z)
              /\ properties' = InitProperties(im_seg.nz)
              /\ iz' = Min(Z)
              /\ \E fit \in CenterlineSet(Min(Z), Max(Z)) :
                   /\ arr_ctl_der' = fit
                   /\ pc' = AfterCenterline(fit)
                   /\ error' = IF fit = CenterlineFailure THEN "CenterlineError" ELSE "none"
    /\ UNCHANGED <<im_seg, visited, absent, log, regions, resolution, ix, p2d,
                   p2d_before, scale, sc_properties, current_patch,
                   current_patch_scaled, angle_xy, tangent_vect, others>>

\* lines 176-187 for depth index z: the two angles
Angles(z) ==
    LET normalized == Normalize(TangentVect(arr_ctl_der, Offset(z, min_z_index),
                                            im_seg.px, im_seg.py, im_seg.pz))
    IN  <<atan2(normalized.v[1], normalized.v[3], normalized.norm2),
          atan2(normalized.v[2], normalized.v[3], normalized.norm2)>>

\* lines 165-207 for depth index z, with the slice read as raw, the outcome
\* of warp as scaled and the outcome of np.argsort as perm
Body(z, raw, scaled, perm) ==
    IF Offset(z, min_z_index) \notin 1..Len(arr_ctl_der.x)
    THEN \* line 176: index out of the derivative array
         /\ pc' = "raised"
         /\ error' = "IndexError"
         /\ current_patch' = raw
         /\ UNCHANGED <<regions, resolution, ix, p2d, absent, sc_properties, properties,
                        log, current_patch_scaled, angle_xy, tangent_vect>>
    ELSE LET res == <<im_seg.px, im_seg.py>>
             found == properties2d(scaled.regions, res, perm)
             assigned == assign_AP_and_RL_diameter(found)
         IN  /\ current_patch' = raw
             /\ tangent_vect' = TangentVect(arr_ctl_der, Offset(z, min_z_index),
                                            im_seg.px, im_seg.py, im_seg.pz)
             /\ angle_xy' = Angles(z)
             /\ current_patch_scaled' = scaled
             /\ regions' = scaled.regions
             /\ resolution' = res
             /\ ix' = perm
             /\ p2d' = found
             /\ absent' = IF found = None THEN absent \cup {z} ELSE absent
             /\ IF assigned = TypeError
                THEN /\ pc' = "raised"
                     /\ error' = "TypeError"
                     /\ sc_properties' = found
                     /\ UNCHANGED <<properties, log>>
                ELSE /\ sc_properties' = assigned
                     /\ IF assigned # None
                        THEN /\ properties' = WriteProperties(properties, assigned, z)
                             /\ UNCHANGED log
                        ELSE /\ log' = Append(log, Warning(z))
                             /\ UNCHANGED properties
                     /\ UNCHANGED <<pc, error>>

\* what the patch of depth index z may come out as, lines 189-195
Scaled(z, raw) ==
    IF Offset(z, min_z_index) \notin 1..Len(arr_ctl_der.x)
    THEN {raw}
    ELSE warp(raw, <<cos(Angles(z)[1]), cos(Angles(z)[2])>>, raw.shape)

Areas(patch) == [i \in 1..Len(patch.regions) |-> patch.regions[i].area]

\* lines 163-207: one pass of the loop body
LoopBody ==
    /\ pc = "loop"
    /\ iz \in DepthRange(min_z_index, max_z_index)
    /\ \E r \in RawPatchSet(im_seg.data[iz]) :
         LET raw == Patch(<<im_seg.nx, im_seg.ny>>, r) IN
         \E scaled \in Scaled(iz, raw) :
            \E perm \in ArgsortSet(Areas(scaled)) :
               Body(iz, raw, scaled, perm)
    /\ iz' = IF pc' = "raised" THEN iz ELSE iz + 1
    /\ visited' = Append(visited, iz)
    /\ UNCHANGED <<im_seg, min_z_index, max_z_index, p2d_before, scale, arr_ctl_der,
                   others>>

\* line 289
Return ==
    /\ pc = "loop"
    /\ iz \notin DepthRange(min_z_index, max_z_index)
    /\ pc' = "done"
    /\ UNCHANGED <<im_seg, min_z_index, max_z_index, properties, iz, visited, absent,
                   log, error, regions, resolution, ix, p2d, p2d_before, scale,
                   sc_properties, loopVars, others>>

---------------------------------------------------------------------------
(* The loop bodies of lines 163-207 run in any order, one worker per depth
   index.  The slice read at a depth index and what the library calls make
   of it are functions of the volume: oracle records them per depth index. *)

\* lines 198-200 for the patch recorded at depth index z
Outcome(z) ==
    assign_AP_and_RL_diameter(
        properties2d(oracle[z].scaled.regions, <<im_seg.px, im_seg.py>>, oracle[z].perm))

\* lines 163-205 from depth index z on, in the order of range()
RECURSIVE SequentialLoop(_, _)
SequentialLoop(props, z) ==
    IF z \notin DepthRange(min_z_index, max_z_index)
    THEN props
    ELSE SequentialLoop(WriteProperties(props, Outcome(z), z), z + 1)

\* one loop body, for a depth index that has not been processed yet
AnyBody ==
    /\ pc = "loop"
    /\ \E z \in DepthRange(min_z_index, max_z_index) \ DOMAIN oracle :
         /\ \E r \in RawPatchSet(im_seg.data[z]) :
              LET raw == Patch(<<im_seg.nx, im_seg.ny>>, r) IN
              \E scaled \in Scaled(z, raw) :
                 \E perm \in ArgsortSet(Areas(scaled)) :
                    /\ Body(z, raw, scaled, perm)
                    /\ oracle' = [d \in DOMAIN oracle \cup {z} |->
                                    IF d = z
                                    THEN [raw |-> raw, scaled |-> scaled, perm |-> perm]
                                    ELSE oracle[d]]
         /\ iz' = z
         /\ visited' = Append(visited, z)
    /\ UNCHANGED <<im_seg, min_z_index, max_z_index, p2d_before, scale, arr_ctl_der,
                   img, xf>>

\* line 289, once every depth index of the range has been processed
AnyReturn ==
    /\ pc = "loop"
    /\ DepthRange(min_z_index, max_z_index) \subseteq DOMAIN oracle
    /\ pc' = "done"
    /\ UNCHANGED <<im_seg, min_z_index, max_z_index, properties, iz, visited, absent,
                   log, error, regions, resolution, ix, p2d, p2d_before, scale,
                   sc_properties, loopVars, others>>

\* the volumes handed to the workers: unit spacing
AnyOrderVolumes == {v \in Volumes : v.px = 1 /\ v.py = 1 /\ v.pz = 1}

AnyOrderInit ==
    /\ pc = "start"
    /\ im_seg \in AnyOrderVolumes
    /\ ShapeInit
    /\ oracle = <<>>
    /\ img = None
    /\ xf = None

AnyOrderNext ==
    \/ Start
    \/ AnyBody
    \/ AnyReturn

AnyOrderSpec == AnyOrderInit /\ [][AnyOrderNext]_vars

---------------------------------------------------------------------------
(* spinalcordtoolbox/imgproc.py *)

shapeVars ==
    <<im_seg, min_z_index, max_z_index, properties, iz, visited, absent, log, error,
      regions, resolution, ix, p2d, p2d_before, scale, sc_properties, loopVars>>

\* Python values with their type, so that '1' and 1 are different values
PyStr(s) == [type |-> "str", value |-> s]
PyInt(n) == [type |-> "int", value |-> n]

NotImplementedError == [raised |-> "NotImplementedError"]
UnboundLocalError == [raised |-> "UnboundLocalError"]
AttributeError == [raised |-> "AttributeError"]

\* an ndarray, by its elements
ArraySet == [1..ArrLen -> 0..MaxVal]
zeros_like(src) == [i \in DOMAIN src |-> 0]

ThresholdSet == {None, PyStr("otsu"), PyStr("mean")} \cup {PyInt(t) : t \in 0..(MaxVal + 1)}

\* lines 107-113: the threshold compared with; skimage's threshold_otsu picks
\* one between the values of src
NumericThreshold(src, threshold) ==
    IF threshold = PyStr("otsu")
    THEN {PyInt(src[i]) : i \in DOMAIN src}
    ELSE IF threshold.type = "int"
         THEN {threshold}            \* threshold += 0
         ELSE {NotImplementedError}  \* the bare except of lines 112-113

\* line 115: src >= threshold, element by element
GreaterEqual_strict(src, t) == [i \in DOMAIN src |-> IF src[i] > t THEN 1 ELSE 0]

GreaterEqual(src, t) == [i \in DOMAIN src |-> IF src[i] >= t THEN 1 ELSE 0]

\* lines 94-117, for the numeric threshold t: what the array dst holds at the
\* return, or the exception raised; dst None is replaced by a new array
binarize_ndarray(src, dst, t) ==
    IF t = NotImplementedError
    THEN NotImplementedError
    ELSE LET created == IF dst = None THEN zeros_like(src) ELSE dst
         IN  [i \in DOMAIN created |-> GreaterEqual(src, t.value)[i]]

\* a direct call binarize_ndarray(src, dst, threshold); dst is left out, the
\* array src itself, or another array
CallBinarizeNdarray ==
    /\ pc = "img"
    /\ img = None
    /\ \E src \in ArraySet, threshold \in ThresholdSet,
          dst \in {None} \cup {[alias |-> FALSE, data |-> d] : d \in ArraySet}
                         \cup {[alias |-> TRUE]} :
         \E t \in NumericThreshold(src, threshold) :
            LET given == IF dst = None THEN None
                         ELSE IF dst.alias THEN src ELSE dst.data
                out == binarize_ndarray(src, given, t)
            IN  img' = [call |-> "binarize_ndarray",
                        src |-> src,
                        dst |-> given,
                        alias |-> (dst # None /\ dst.alias),
                        threshold |-> threshold,
                        t |-> t,
                        out |-> out,
                        dst_after |-> IF out = NotImplementedError THEN given ELSE out,
                        src_after |-> IF dst # None /\ dst.alias /\ out # NotImplementedError
                                      THEN out ELSE src]
    /\ UNCHANGED <<pc, shapeVars, oracle, xf>>

\* a path to an image file, an Image, or an ndarray, with the array it holds
ValueSet == {[type |-> k, data |-> a] : k \in {"str", "Image", "ndarray"}, a \in ArraySet}

\* lines 55-80: the array func receives as dst
FuncDst(src, dst) ==
    IF dst = None
    THEN IF src.type \in {"str", "Image"}
         THEN None                      \* lines 68-76 assign dst_image, not dst
         ELSE zeros_like(src.data)      \* line 78: dst_creator(src)
    ELSE IF dst.type = "str"
         THEN src.data                  \* line 59: the data of src_image.copy()
         ELSE dst.data                  \* lines 63 and 64-66

\* lines 85-91: what is returned after func has run with the outcome out
Returned(src, dst, out) ==
    IF dst = None
    THEN IF src.type = "ndarray"
         THEN UnboundLocalError         \* line 85 reads dst_path, never assigned
         ELSE [type |-> src.type, data |-> src.data]   \* the copy of src_image
    ELSE [type |-> dst.type, data |-> out]

\* lines 20-91 with func = binarize_ndarray for the numeric threshold t: the
\* outcomes; Image.setFilename of line 58 is not the setFileName of lines 72
\* and 75, and with an ndarray src there is no src_image to copy
apply_on_path_or_image_or_ndarray(src, dst, t) ==
    LET out == binarize_ndarray(src.data, FuncDst(src, dst), t)
        done == [func_dst |-> FuncDst(src, dst), func_out |-> out,
                 returned |-> IF out = NotImplementedError THEN out
                              ELSE Returned(src, dst, out)]
        failed == [func_dst |-> None, func_out |-> None, returned |-> AttributeError]
    IN  IF dst # None /\ dst.type = "str"
        THEN IF src.type = "ndarray" THEN {failed} ELSE {failed, done}
        ELSE {done}

\* lines 121-133: binarize(src, dst, threshold)
CallBinarize ==
    /\ pc = "img"
    /\ img = None
    /\ \E src \in ValueSet, dst \in {None} \cup ValueSet, threshold \in ThresholdSet :
         \E t \in NumericThreshold(src.data, threshold) :
            \E o \in apply_on_path_or_image_or_ndarray(src, dst, t) :
               img' = [call |-> "binarize", src |-> src, dst |-> dst,
                       threshold |-> threshold, t |-> t, func_dst |-> o.func_dst,
                       func_out |-> o.func_out, returned |-> o.returned]
    /\ UNCHANGED <<pc, shapeVars, oracle, xf>>

ImgInit ==
    /\ pc = "img"
    /\ im_seg = NoVolume
    /\ ShapeInit
    /\ oracle = <<>>
    /\ img = None
    /\ xf = None

ImgNext ==
    \/ CallBinarizeNdarray
    \/ CallBinarize

ImgSpec == ImgInit /\ [][ImgNext]_vars

---------------------------------------------------------------------------
(* scripts/sct_apply_transfo.py *)

\* a name on the warp list: a leading '-', folder, file name and extension,
\* and for a NIfTI file whether its header has the vector intent
WarpSet ==
    {w \in [dash : BOOLEAN, dir : {"", "reg/"}, file : {"warp_a", "warp_b"},
            ext : {".nii.gz", ".txt"}, vector : BOOLEAN] :
        w.vector => w.ext = ".nii.gz"}

WarpLists == UNION {[1..n -> WarpSet] : n \in 1..MaxWarps}

InverseFlag == [flag |-> "-i"]

\* line 132: path_warp[1:], as handed to the tool
Name(w) == [dir |-> w.dir, file |-> w.file, ext |-> w.ext]

\* lines 130-136: the entry of fname_warp_list_invert for one warp
Entry(w) == IF w.dash THEN <<InverseFlag, Name(w)>> ELSE <<Name(w)>>

\* lines 155-156: the entries reversed, then concatenated
RECURSIVE ReverseFlatten(_)
ReverseFlatten(ws) ==
    IF ws = <<>> THEN <<>> ELSE ReverseFlatten(Tail(ws)) \o Entry(Head(ws))

\* lines 202-206: the warps copied into the temporary folder, by file name
\* and extension, in reverse order
Basename(w) == [dir |-> "", file |-> w.file, ext |-> w.ext]
fname_warp_list_invert_tmp(ws) == [i \in 1..Len(ws) |-> Basename(ws[Len(ws) + 1 - i])]

\* lines 138-143: a NIfTI warp without the vector intent
Invalid(w) == w.ext \in {".nii", ".nii.gz"} /\ ~w.vector

\* lines 145-148, read before the list is reversed
isLastAffine(ws) == ws[Len(ws)].ext \in {".txt", ".mat"}

\* lines 254-262
Crop(ws, crop_reference) ==
    IF isLastAffine(ws) THEN "no"
    ELSE IF crop_reference = PyInt(1) THEN "crop(background=0)"
    ELSE IF crop_reference = PyInt(2) THEN "crop()"
    ELSE "no"

\* lines 110-265: Transform.apply() of an object with the given crop and warp
\* list, on a source image of nt volumes
apply(call, crop, ws, nt) ==
    IF \E i \in 1..Len(ws) : Invalid(ws[i])
    THEN [call |-> call, crop |-> crop, warp_input |-> ws, nt |-> nt,
          raised |-> "ValueError", commands |-> <<>>, cropped |-> "no",
          ref |-> None]
    ELSE [call |-> call, crop |-> crop, warp_input |-> ws, nt |-> nt,
          raised |-> "none",
          commands |-> IF nt = 1
                       THEN <<ReverseFlatten(ws)>>
                       ELSE [it \in 1..nt |-> fname_warp_list_invert_tmp(ws)],
          cropped |-> Crop(ws, crop),
          ref |-> ReverseFlatten(ws)[Len(ReverseFlatten(ws))]]

\* lines 56-61: the values the parser accepts for -crop, '0' when left out
CropChoices == {PyStr("0"), PyStr("1"), PyStr("2")}

\* lines 270-296: main, with line 286 storing the parsed value as it is
Main ==
    /\ pc = "transfo"
    /\ xf = None
    /\ \E crop \in CropChoices, ws \in WarpLists, nt \in 1..MaxNt :
         xf' = apply("main", crop, ws, nt)
    /\ UNCHANGED <<pc, shapeVars, oracle, img>>

\* Transform(..., crop=k).apply() from Python, lines 96-108
CallApply ==
    /\ pc = "transfo"
    /\ xf = None
    /\ \E k \in 0..2, ws \in WarpLists, nt \in 1..MaxNt :
         xf' = apply("apply", PyInt(k), ws, nt)
    /\ UNCHANGED <<pc, shapeVars, oracle, img>>

TransfoInit ==
    /\ pc = "transfo"
    /\ im_seg = NoVolume
    /\ ShapeInit
    /\ oracle = <<>>
    /\ img = None
    /\ xf = None

TransfoNext ==
    \/ Main
    \/ CallApply

TransfoSpec == TransfoInit /\ [][TransfoNext]_vars

Next ==
    \/ CallProperties2d
    \/ CallProperties2dRescaled
    \/ CallAssign
    \/ Start
    \/ LoopBody
    \/ Return

Spec == Init /\ [][Next]_vars

---------------------------------------------------------------------------
(* Properties *)

Started == pc \in {"loop", "done", "raised"} /\ properties # <<>>
Depths == 0..(im_seg.nz - 1)
AllNaN(z) == \A key \in DOMAIN properties : isnan(properties[key][z])
AllComputed(z) == \A key \in DOMAIN properties : ~isnan(properties[key][z])
Selected == regions[ix[Len(ix)]]

\* C1: a depth index of the loop whose corrected patch has no region
\* (properties2d returned None) keeps NaN in every property array, and the
\* call does not raise.
C1_AbsentSliceKeepsNaNAndCompletes ==
    \A z \in absent :
        /\ error = "none"
        /\ pc # "raised"
        /\ AllNaN(z)

\* C2: the loop bodies run for min_z, min_z + 1, ... in this order, never
\* beyond max_z - 2; a call that returns has run all of min_z .. max_z - 2,
\* and every depth index outside min_z .. max_z - 2 holds NaN in every array.
C2_DepthRange ==
    Started =>
        /\ \A i \in 1..Len(visited) :
              /\ visited[i] = min_z_index + (i - 1)
              /\ visited[i] <= max_z_index - 2
        /\ \A z \in Depths \ (min_z_index..(max_z_index - 2)) : AllNaN(z)
        /\ pc = "done" =>
              {visited[i] : i \in 1..Len(visited)} = min_z_index..(max_z_index - 2)

C2_Witness ==
    /\ pc = "done"
    /\ Len(visited) >= 2
    /\ min_z_index > 0
    /\ \A i \in 1..Len(visited) : AllComputed(visited[i])
    /\ AllNaN(max_z_index - 1) /\ AllNaN(max_z_index) /\ AllNaN(min_z_index - 1)

\* C3: at every depth index the eight arrays hold either eight computed
\* values or eight NaN.
C3_AllOrNothing ==
    Started => \A z \in Depths : AllNaN(z) \/ AllComputed(z)

C3_Witness ==
    /\ pc = "done"
    /\ \E z \in Depths : AllComputed(z)
    /\ \E z \in Depths : AllNaN(z)

\* C4: the returned mapping has exactly the eight property names as keys and
\* every array is indexed by the nz depth indices of the volume.
C4_EightFullLengthArrays ==
    pc = "done" =>
        /\ DOMAIN properties =
              {"area", "equivalent_diameter", "AP_diameter", "RL_diameter",
               "ratio_minor_major", "eccentricity", "solidity", "orientation"}
        /\ \A key \in DOMAIN properties : DOMAIN properties[key] = 0..(im_seg.nz - 1)

C4_Witness ==
    /\ pc = "done"
    /\ max_z_index - min_z_index + 1 < im_seg.nz
    /\ \E z \in Depths : AllComputed(z)

\* C5: after assign_AP_and_RL_diameter, RL is the major and AP the minor
\* axis length when -45 < orientation < 45 (degrees); for every other
\* orientation, -45 and 45 included, RL is the minor and AP the major one.
C5_AxisAssignment ==
    (sc_properties # None /\ "RL_diameter" \in DOMAIN sc_properties) =>
        LET o == sc_properties.orientation IN
        IF -45 * o.den < o.num /\ o.num < 45 * o.den
        THEN /\ sc_properties.RL_diameter = sc_properties.major_axis_length
             /\ sc_properties.AP_diameter = sc_properties.minor_axis_length
        ELSE /\ sc_properties.RL_diameter = sc_properties.minor_axis_length
             /\ sc_properties.AP_diameter = sc_properties.major_axis_length

C5_Witness ==
    /\ sc_properties # None
    /\ "RL_diameter" \in DOMAIN sc_properties
    /\ sc_properties.orientation.num = 45 * sc_properties.orientation.den
    /\ sc_properties.major_axis_length # sc_properties.minor_axis_length
    /\ sc_properties.RL_diameter = sc_properties.minor_axis_length

\* C6: the ratio returned by properties2d is 0.0 when the selected region
\* has major axis length 0, and minor / major otherwise; no division error
\* leaves the call.
C6_RatioOfDegenerateRegion ==
    p2d # None =>
        /\ p2d.ratio_minor_major # ZeroDivisionError
        /\ error # "ZeroDivisionError"
        /\ IF Selected.major_axis_length = 0
           THEN p2d.ratio_minor_major = Float(0)
           ELSE p2d.ratio_minor_major =
                  [num |-> Selected.minor_axis_length, den |-> Selected.major_axis_length]

C6_Witness ==
    /\ p2d # None
    /\ Selected.major_axis_length = 0
    /\ p2d.ratio_minor_major = Float(0)

InUnitInterval(v) == v.den > 0 /\ 0 <= v.num /\ v.num <= v.den

\* C7: whatever the resolution argument, the ratio returned by properties2d
\* lies in [0, 1], and so does every entry of the ratio array that is not NaN.
C7_RatioInUnitInterval ==
    /\ p2d # None => InUnitInterval(p2d.ratio_minor_major)
    /\ Started =>
          \A z \in Depths :
              ~isnan(properties["ratio_minor_major"][z]) =>
                  InUnitInterval(properties["ratio_minor_major"][z])

C7_Witness ==
    /\ pc = "called"
    /\ resolution = None
    /\ p2d # None
    /\ 0 < p2d.ratio_minor_major.num
    /\ p2d.ratio_minor_major.num < p2d.ratio_minor_major.den

FirstLargest ==
    CHOOSE i \in 1..Len(regions) :
        /\ \A j \in 1..Len(regions) : regions[j].area <= regions[i].area
        /\ \A j \in 1..(i - 1) : regions[j].area < regions[i].area

\* C8 as stated: the region selected by properties2d has the maximum area,
\* and among regions of maximum area it is the first in labeling order.
C8_FirstOfLargest ==
    p2d # None => ix[Len(ix)] = FirstLargest

\* C8 as amended: the region selected by properties2d has the maximum area
\* among the labeled regions, and the returned descriptors are its own.
C8_LargestArea ==
    p2d # None =>
        /\ \A j \in 1..Len(regions) : regions[j].area <= Selected.area
        /\ p2d.area = ScaledArea(Selected.area, resolution)
        /\ p2d.orientation.num = Selected.orientation * 180

C8_Witness ==
    /\ p2d # None
    /\ Len(regions) = 2
    /\ regions[1].area > regions[2].area
    /\ ix[Len(ix)] = 1

\* C9: properties2d returns None exactly when the patch has no region, and
\* otherwise a record with all sixteen descriptor fields.
C9_NoneIffNoRegion ==
    pc \in {"called", "loop", "done", "raised"} =>
        /\ p2d = None <=> Len(regions) = 0
        /\ p2d # None =>
              DOMAIN p2d =
                {"area", "bbox", "centroid", "eccentricity", "equivalent_diameter",
                 "euler_number", "inertia_tensor", "inertia_tensor_eigvals",
                 "minor_axis_length", "major_axis_length", "moments", "moments_central",
                 "orientation", "perimeter", "ratio_minor_major", "solidity"}

C9_Witness ==
    /\ pc = "called"
    /\ Len(regions) = 0
    /\ p2d = None

\* C10: with both components of the resolution multiplied by k, area is
\* multiplied by k * k, the equivalent diameter and both axis lengths by k,
\* and orientation, eccentricity, solidity and ratio stay as they were; a
\* resolution (px, py) scales the lengths by px and the area by px * py.
C10_ResolutionScaling ==
    /\ (scale # 0 /\ p2d # None) =>
          /\ p2d_before # None
          /\ p2d.area = Mul(p2d_before.area, scale * scale)
          /\ p2d.equivalent_diameter = Mul(p2d_before.equivalent_diameter, scale)
          /\ p2d.major_axis_length = Mul(p2d_before.major_axis_length, scale)
          /\ p2d.minor_axis_length = Mul(p2d_before.minor_axis_length, scale)
          /\ p2d.orientation = p2d_before.orientation
          /\ p2d.eccentricity = p2d_before.eccentricity
          /\ p2d.solidity = p2d_before.solidity
          /\ p2d.ratio_minor_major = p2d_before.ratio_minor_major
    /\ (p2d # None /\ resolution # None) =>
          /\ p2d.area = Float(Selected.area * resolution[1] * resolution[2])
          /\ p2d.equivalent_diameter = Float(Selected.equivalent_diameter * resolution[1])
          /\ p2d.major_axis_length = Float(Selected.major_axis_length * resolution[1])
          /\ p2d.minor_axis_length = Float(Selected.minor_axis_length * resolution[1])

C10_Witness ==
    /\ scale > 1
    /\ p2d # None
    /\ resolution[1] # resolution[2]
    /\ p2d.minor_axis_length.num > 0
    /\ p2d.minor_axis_length # p2d_before.minor_axis_length

\* C11: when get_centerline fails the call raises that failure with no loop
\* body run and never returns; a call that returns hands back all eight
\* arrays, each over the nz depth indices.
C11_CenterlineFailureAborts ==
    /\ arr_ctl_der = CenterlineFailure =>
          /\ pc = "raised"
          /\ error = "CenterlineError"
          /\ visited = <<>>
    /\ pc = "done" =>
          /\ arr_ctl_der # CenterlineFailure
          /\ DOMAIN properties = PropertyNames
          /\ \A key \in PropertyNames : DOMAIN properties[key] = Depths

C11_Witness ==
    /\ arr_ctl_der = CenterlineFailure
    /\ pc = "raised"
    /\ min_z_index < max_z_index - 1

Identifies(event, z) ==
    \E j \in 1..Len(event.message) : event.message[j] = [value |-> <<z>>]

\* C12: for every depth index whose patch has no region the log holds
\* exactly one warning that identifies the index, and the call goes on.
C12_OneWarningPerAbsentSlice ==
    \A z \in absent :
        /\ Cardinality({i \in 1..Len(log) :
                           log[i].level = "warning" /\ Identifies(log[i], z)}) = 1
        /\ pc # "raised"

ZeroTangent(z) ==
    Normalize(TangentVect(arr_ctl_der, z - min_z_index + 1,
                          im_seg.px, im_seg.py, im_seg.pz)).norm2 = 0

\* C13: a depth index whose tangent vector has zero length either makes the
\* call raise a tangent error of its own, or is skipped with NaN left in
\* every array; nothing else is raised and nothing is written for it.
C13_ZeroTangentRaisesOrSkips ==
    Started =>
        \A i \in 1..Len(visited) :
            ZeroTangent(visited[i]) =>
                \/ pc = "raised" /\ error = "TangentError"
                \/ error = "none" /\ AllNaN(visited[i])

LastVisited == visited[Len(visited)]

Aligned(z) ==
    /\ arr_ctl_der.x[z - min_z_index + 1] * im_seg.px = 0
    /\ arr_ctl_der.y[z - min_z_index + 1] * im_seg.py = 0
    /\ im_seg.pz > 0

\* C19: the corrected patch of a slice has the shape of the raw patch; with
\* a tangent along the depth axis (in-plane components 0, depth spacing not
\* 0) both angles are 0, both scale factors 1, the corrected patch is the
\* raw patch, and what is written at the depth index are the properties of
\* the raw slice.
C19_AlignedTangentKeepsPatch ==
    (Started /\ visited # <<>>) =>
        /\ current_patch_scaled.shape = current_patch.shape
        /\ Aligned(LastVisited) =>
              /\ angle_xy = <<ZeroAngle, ZeroAngle>>
              /\ cos(angle_xy[1]) = Float(1) /\ cos(angle_xy[2]) = Float(1)
              /\ current_patch_scaled = current_patch
              /\ sc_properties # None =>
                    /\ \E perm \in ArgsortSet(Areas(current_patch)) :
                          sc_properties =
                             assign_AP_and_RL_diameter(
                                properties2d(current_patch.regions,
                                             <<im_seg.px, im_seg.py>>, perm))
                    /\ \A key \in PropertyNames :
                          properties[key][LastVisited] = sc_properties[key]

C19_Witness ==
    /\ Started /\ visited # <<>>
    /\ Aligned(LastVisited)
    /\ Len(current_patch.regions) = 2
    /\ sc_properties # None
    /\ AllComputed(LastVisited)

\* C20: assign_AP_and_RL_diameter adds the fields AP_diameter and RL_diameter
\* and leaves every other field as properties2d returned it; the pair
\* (AP, RL) is (major, minor) or (minor, major); a second application gives
\* the same record.
C20_AssignOnlyAddsDiameters ==
    (sc_properties # None /\ "RL_diameter" \in DOMAIN sc_properties) =>
        /\ DOMAIN sc_properties = DOMAIN p2d \cup {"AP_diameter", "RL_diameter"}
        /\ \A k \in DOMAIN p2d : sc_properties[k] = p2d[k]
        /\ \/ /\ sc_properties.AP_diameter = p2d.major_axis_length
              /\ sc_properties.RL_diameter = p2d.minor_axis_length
           \/ /\ sc_properties.AP_diameter = p2d.minor_axis_length
              /\ sc_properties.RL_diameter = p2d.major_axis_length
        /\ assign_AP_and_RL_diameter(sc_properties) = sc_properties

C20_Witness ==
    /\ pc = "called"
    /\ sc_properties # None
    /\ "RL_diameter" \in DOMAIN sc_properties
    /\ "RL_diameter" \notin DOMAIN p2d
    /\ sc_properties.RL_diameter = sc_properties.minor_axis_length
    /\ sc_properties.major_axis_length # sc_properties.minor_axis_length

\* C14: with the loop bodies run in any order, a body changes the arrays at
\* its own depth index only, a run that returns holds the mapping the
\* sequential loop computes from the same slices, and a run raises only
\* where the sequential loop over the same slices raises as well.
C14_AnyOrderSameMapping ==
    /\ Started =>
          \A z \in Depths \ DOMAIN oracle : AllNaN(z)
    /\ pc = "done" =>
          properties = SequentialLoop(InitProperties(im_seg.nz), min_z_index)
    /\ error = "TypeError" =>
          \E z \in DOMAIN oracle : oracle[z].scaled.regions = <<>>

C14_Witness ==
    /\ pc = "done"
    /\ Len(visited) >= 2
    /\ visited[1] > visited[2]
    /\ \E key \in PropertyNames :
          properties[key][visited[1]] # properties[key][visited[2]]

\* C15: binarize with dst left out returns a destination of the kind of
\* src, has handed the array of that destination to func as dst, and the
\* returned destination holds what func computed.
C15_CreatedDestinationHoldsResult ==
    (img # None /\ img.call = "binarize" /\ img.dst = None
       /\ img.func_out # NotImplementedError) =>
        /\ img.returned # UnboundLocalError
        /\ img.returned.type = img.src.type
        /\ img.func_dst # None
        /\ img.returned.data = img.func_out

IsNumeric(threshold) == threshold.type = "int"

\* C18 as stated: with a numeric threshold dst holds 1 where src >= threshold
\* and 0 elsewhere, and src is as before; with a threshold that is neither
\* "otsu" nor a number NotImplementedError is raised and dst is as before.
C18_BinarizeLeavesSrc ==
    (img # None /\ img.call = "binarize_ndarray") =>
        /\ IsNumeric(img.threshold) =>
              /\ img.out = [i \in 1..ArrLen |->
                              IF img.src[i] >= img.threshold.value THEN 1 ELSE 0]
              /\ img.dst # None => img.dst_after = img.out
              /\ img.src_after = img.src
        /\ (~IsNumeric(img.threshold) /\ img.threshold # PyStr("otsu")) =>
              /\ img.out = NotImplementedError
              /\ img.dst_after = img.dst

\* C18 as amended: the same, with src as before whenever dst is not the
\* array src itself.
C18_BinarizeLeavesDistinctSrc ==
    (img # None /\ img.call = "binarize_ndarray") =>
        /\ IsNumeric(img.threshold) =>
              /\ img.out = [i \in 1..ArrLen |->
                              IF img.src[i] >= img.threshold.value THEN 1 ELSE 0]
              /\ img.dst # None => img.dst_after = img.out
              /\ ~img.alias => img.src_after = img.src
        /\ (~IsNumeric(img.threshold) /\ img.threshold # PyStr("otsu")) =>
              /\ img.out = NotImplementedError
              /\ img.dst_after = img.dst
              /\ img.src_after = img.src

C18_Witness ==
    /\ img # None /\ img.call = "binarize_ndarray"
    /\ IsNumeric(img.threshold)
    /\ ~img.alias
    /\ img.dst # None
    /\ img.dst # img.dst_after
    /\ \E i, j \in 1..ArrLen : img.out[i] = 1 /\ img.out[j] = 0 /\ img.src[i] = img.threshold.value

\* C16: after main with -crop 1 (-crop 2) and a last transformation that is
\* not a .txt or .mat file, the output was cropped with background 0 (with
\* the normal background); after main with -crop 0 it was not cropped.
C16_CropFollowsOption ==
    (xf # None /\ xf.call = "main" /\ xf.raised = "none") =>
        /\ (xf.crop.value = "1" /\ ~isLastAffine(xf.warp_input)) =>
              xf.cropped = "crop(background=0)"
        /\ (xf.crop.value = "2" /\ ~isLastAffine(xf.warp_input)) =>
              xf.cropped = "crop()"
        /\ xf.crop.value = "0" => xf.cropped = "no"

\* the transform arguments the claim describes: the given warps in reverse
\* order, '-i' before each one given with a leading '-'
RECURSIVE Expected(_)
Expected(ws) ==
    IF ws = <<>> THEN <<>>
    ELSE Expected(Tail(ws))
         \o (IF Head(ws).dash THEN <<InverseFlag>> ELSE <<>>)
         \o <<[dir |-> Head(ws).dir, file |-> Head(ws).file, ext |-> Head(ws).ext]>>

\* a transform sequence with the folders left aside (the 4D branch works on
\* copies in its temporary folder)
Files(args) ==
    [i \in 1..Len(args) |->
        IF args[i] = InverseFlag THEN InverseFlag
        ELSE [file |-> args[i].file, ext |-> args[i].ext]]

\* C17: every run of the external tool, in the 3D branch and for each volume
\* of the 4D branch, gets the given warps in reverse order with '-i' before
\* each warp that was given with a leading '-'.
C17_ReversedWithInverseFlags ==
    (xf # None /\ xf.raised = "none") =>
        /\ Len(xf.commands) = xf.nt
        /\ \A c \in 1..Len(xf.commands) :
              Files(xf.commands[c]) = Files(Expected(xf.warp_input))

\* C21: no loop body indexes the derivatives out of range: the tangent of
\* depth index iz is built from the entry at offset iz - min_z of a sequence
\* with one entry per depth position of [min_z, max_z), and that offset lies
\* within it; with max_z - min_z <= 1 no loop body runs, the derivatives are
\* not indexed and every array keeps NaN at every depth index.
C21_TangentOffsetInRange ==
    /\ error # "IndexError"
    /\ (Started /\ arr_ctl_der # CenterlineFailure) =>
          /\ Len(arr_ctl_der.x) = max_z_index - min_z_index
          /\ Len(arr_ctl_der.y) = max_z_index - min_z_index
          /\ \A i \in 1..Len(visited) :
                visited[i] - min_z_index \in 0..(max_z_index - min_z_index - 1)
          /\ visited # <<>> =>
                tangent_vect =
                   <<arr_ctl_der.x[LastVisited - min_z_index + 1] * im_seg.px,
                     arr_ctl_der.y[LastVisited - min_z_index + 1] * im_seg.py,
                     im_seg.pz>>
          /\ max_z_index - min_z_index <= 1 =>
                /\ visited = <<>>
                /\ tangent_vect = <<>>
                /\ error = "none"
                /\ \A z \in Depths : AllNaN(z)

C21_Witness ==
    /\ pc = "done"
    /\ min_z_index > 0
    /\ Len(visited) >= 2
    /\ arr_ctl_der.x[1] # arr_ctl_der.x[2]
    /\ tangent_vect[1] = arr_ctl_der.x[2] * im_seg.px
    /\ AllComputed(LastVisited)

====
